---- MODULE Spec2Model ----
(***************************************************************************)
(* Fischer-Koch S surface plotter (src/fischer_koch_s.py and its           *)
(* save-to-file twin src/fischer_koch_s_save.py).                          *)
(*                                                                         *)
(* Two specifications over one set of variables:                           *)
(*   Spec      one call of generate_surface(resolution, bounds, iso_value) *)
(*             followed statement by statement;                            *)
(*   SpecMain  the interactive main(): the resolution prompt, the call of  *)
(*             generate_surface and the exit code.                         *)
(*                                                                         *)
(* Numbers.  Coordinates are exact rationals <<p, q>> in lowest terms      *)
(* (q >= 1); the rounding of IEEE doubles is not modelled.  The field      *)
(* value at a point is kept as the symbolic term of the expression the     *)
(* code evaluates, so two samples are equal exactly when they are the      *)
(* same expression of the same coordinates.                                *)
(*                                                                         *)
(* Library calls.  numpy.linspace, numpy.meshgrid, str.strip and int are   *)
(* modelled by what they compute.  scipy.ndimage.gaussian_filter and       *)
(* skimage.measure.marching_cubes are third-party code: their results are  *)
(* opaque here (a symbolic array, respectively any mesh of a bounded pool, *)
(* or an exception), and nothing below restricts them.                     *)
(***************************************************************************)
EXTENDS Integers, Sequences, FiniteSets

VARIABLES
    pc,          \* generate_surface: the statement to execute next
    resolution,  \* generate_surface's argument
    bounds,      \* generate_surface's argument, <<lo, hi>>
    iso_value,   \* generate_surface's argument
    x, y, z,     \* the three coordinate vectors (lines 64-66)
    values,      \* the local `values` (bound at 73, rebound at 76 and 80)
    mc_args,     \* what marching_cubes was called with (lines 80-82)
    mc_out,      \* what marching_cubes returned, kept for reference
    verts,       \* the local `verts`
    faces,       \* the local `faces`
    err,         \* the exception that left generate_surface, "" if none
    result,      \* the returned <<verts, faces>>, <<>> until line 89
    mpc,         \* main: the statement to execute next
    typed,       \* main: the line the user typed, a sequence of characters
    mres,        \* main: the local `resolution`
    call_args,   \* main: the arguments of its generate_surface call
    exit_code    \* main: <<>> while running, <<0>> or <<1>> once returned

vars == <<pc, resolution, bounds, iso_value, x, y, z, values, mc_args, mc_out,
          verts, faces, err, result, mpc, typed, mres, call_args, exit_code>>

gsVars == <<pc, resolution, bounds, iso_value, x, y, z, values, mc_args, mc_out,
            verts, faces, err, result>>

mainVars == <<mpc, typed, mres, call_args, exit_code>>

---------------------------------------------------------------------------
(* Bounds of the model *)

ResBound == 3
MaxVerts == 2
MaxFaces == 1
MaxLen == 3

Resolutions == 1..ResBound
BoundValues == {-1, 0, 2}
IsoValues == {0, 1}
VertexPool == {<<0, 0, 0>>, <<1, 3, 2>>}
Alphabet == {" ", "-", "+", "0", "1", "3", "9", ".", "a"}

---------------------------------------------------------------------------
(* Exact rational arithmetic *)

Abs(n) == IF n < 0 THEN -n ELSE n

RECURSIVE GCD(_, _)
GCD(a, b) == IF b = 0 THEN a ELSE GCD(b, a % b)

RNorm(p, q) ==
    LET s == IF q < 0 THEN -1 ELSE 1
        g == GCD(Abs(p), Abs(q))
    IN  <<(s * p) \div g, (s * q) \div g>>

RInt(n) == <<n, 1>>
RAdd(a, b) == RNorm(a[1] * b[2] + b[1] * a[2], a[2] * b[2])
RSub(a, b) == RNorm(a[1] * b[2] - b[1] * a[2], a[2] * b[2])
RMulInt(n, a) == RNorm(n * a[1], a[2])
RDiv(p, q) == RNorm(p, q)

---------------------------------------------------------------------------
(* The values a local can hold *)

Unbound == [op |-> "unbound"]
NoArgs == [called |-> FALSE]

\* Index triples (i, j, k) of an array of shape nx * ny * nz, 0-based as in
\* the code.
Indices(nx, ny, nz) == (0..(nx - 1)) \X (0..(ny - 1)) \X (0..(nz - 1))

---------------------------------------------------------------------------
(* fischer_koch_s: the implicit equation, as the term the code evaluates *)

Product(a, b, c) == [cos2 |-> a, sin |-> b, cos |-> c]

\* cos(2x) sin(y) cos(z) + cos(2y) sin(z) cos(x) + cos(2z) sin(x) cos(y)
FieldAt(px, py, pz) ==
    <<Product(px, py, pz), Product(py, pz, px), Product(pz, px, py)>>

\* The function applied to three arrays of one shape, element by element.
fischer_koch_s(X, Y, Z) ==
    [idx \in DOMAIN X |-> FieldAt(X[idx], Y[idx], Z[idx])]

---------------------------------------------------------------------------
(* numpy.linspace(start, stop, num), endpoint included: num samples,       *)
(* arange(num) * step + start with step = (stop - start) / (num - 1), the  *)
(* last one set to stop; for num = 1 the single sample is start.           *)

linspace_no_endpoint(start, stop, num) ==
    [i \in 1..num |->
        RAdd(RMulInt(i - 1, RDiv(stop - start, num)), RInt(start))]

linspace(start, stop, num) ==
    LET div == num - 1
        delta == stop - start
    IN  [i \in 1..num |->
            IF div > 0
            THEN IF i = num
                 THEN RInt(stop)
                 ELSE RAdd(RMulInt(i - 1, RDiv(delta, div)), RInt(start))
            ELSE RAdd(RMulInt(i - 1, RInt(delta)), RInt(start))]

\* numpy.meshgrid(x, y, z, indexing="ij"): X[i,j,k] = x[i], Y[i,j,k] = y[j],
\* Z[i,j,k] = z[k].  Sequences are 1-based, the code's indices 0-based.
meshgrid_ij(cx, cy, cz) ==
    LET I == Indices(Len(cx), Len(cy), Len(cz))
    IN  [X |-> [idx \in I |-> cx[idx[1] + 1]],
         Y |-> [idx \in I |-> cy[idx[2] + 1]],
         Z |-> [idx \in I |-> cz[idx[3] + 1]]]

\* The smoothing sigma of line 76, in tenths.
SigmaTenths == 5

\* ndimage.gaussian_filter(values, sigma=0.5): a new array made from the
\* whole input; its entries are not computed here.
gaussian_filter(a) ==
    [op |-> "gaussian_filter", sigma_tenths |-> SigmaTenths, input |-> a]

\* spacing=(x[1] - x[0], y[1] - y[0], z[1] - z[0])
Spacing(cx, cy, cz) ==
    <<RSub(cx[2], cx[1]), RSub(cy[2], cy[1]), RSub(cz[2], cz[1])>>

\* verts[:, 0] += bounds[0]; verts[:, 1] += bounds[0]; verts[:, 2] += bounds[0]
AdjustFirstColumnOnly(vs, lo) ==
    [n \in 1..Len(vs) |-> <<vs[n][1] + lo, vs[n][2], vs[n][3]>>]

AdjustVertices(vs, lo) ==
    [n \in 1..Len(vs) |-> <<vs[n][1] + lo, vs[n][2] + lo, vs[n][3] + lo>>]

\* The meshes marching_cubes may hand back: a vertex array of shape (V, 3)
\* and a face array of shape (F, 3) of vertex indices.
VertexArrays == UNION {[1..n -> VertexPool] : n \in 0..MaxVerts}
FaceArrays(nv) ==
    UNION {[1..m -> (0..(nv - 1)) \X (0..(nv - 1)) \X (0..(nv - 1))] :
              m \in 0..MaxFaces}

---------------------------------------------------------------------------
(* generate_surface, statement by statement *)

\* A caller invokes generate_surface(resolution, bounds, iso_value).
Call(res, lo, hi, iso) ==
    /\ pc = "idle"
    /\ resolution' = res
    /\ bounds' = <<lo, hi>>
    /\ iso_value' = iso
    /\ pc' = "linspace"
    /\ UNCHANGED <<x, y, z, values, mc_args, mc_out, verts, faces, err, result>>
    /\ UNCHANGED mainVars

\* Lines 64-66.
CreateGrid ==
    /\ pc = "linspace"
    /\ x' = linspace(bounds[1], bounds[2], resolution)
    /\ y' = linspace(bounds[1], bounds[2], resolution)
    /\ z' = linspace(bounds[1], bounds[2], resolution)
    /\ pc' = "evaluate"
    /\ UNCHANGED <<resolution, bounds, iso_value, values, mc_args, mc_out,
                   verts, faces, err, result>>
    /\ UNCHANGED mainVars

\* Lines 69-73.
Evaluate ==
    /\ pc = "evaluate"
    /\ LET g == meshgrid_ij(x, y, z)
       IN  values' = [op |-> "fischer_koch_s",
                      data |-> fischer_koch_s(g.X, g.Y, g.Z)]
    /\ pc' = "smooth"
    /\ UNCHANGED <<resolution, bounds, iso_value, x, y, z, mc_args, mc_out,
                   verts, faces, err, result>>
    /\ UNCHANGED mainVars

\* Line 76.
Smooth ==
    /\ pc = "smooth"
    /\ values' = gaussian_filter(values)
    /\ pc' = "extract"
    /\ UNCHANGED <<resolution, bounds, iso_value, x, y, z, mc_args, mc_out,
                   verts, faces, err, result>>
    /\ UNCHANGED mainVars

\* Lines 80-82 with a one-point grid: x[1] is out of range, the argument
\* list is never completed and IndexError leaves the function.
ExtractIndexError ==
    /\ pc = "extract"
    /\ Len(x) < 2
    /\ err' = "IndexError"
    /\ pc' = "raised"
    /\ UNCHANGED <<resolution, bounds, iso_value, x, y, z, values, mc_args,
                   mc_out, verts, faces, result>>
    /\ UNCHANGED mainVars

\* Lines 80-82: marching_cubes is called and raises; nothing catches it.
ExtractRaises ==
    /\ pc = "extract"
    /\ Len(x) >= 2
    /\ mc_args' = [called |-> TRUE, volume |-> values, level |-> iso_value,
                   spacing |-> Spacing(x, y, z)]
    /\ err' = "marching_cubes"
    /\ pc' = "raised"
    /\ UNCHANGED <<resolution, bounds, iso_value, x, y, z, values, mc_out,
                   verts, faces, result>>
    /\ UNCHANGED mainVars

\* Lines 80-82: marching_cubes returns (verts, faces, normals, values).
ExtractReturns ==
    /\ pc = "extract"
    /\ Len(x) >= 2
    /\ mc_args' = [called |-> TRUE, volume |-> values, level |-> iso_value,
                   spacing |-> Spacing(x, y, z)]
    /\ \E vs \in VertexArrays :
          \E fs \in FaceArrays(Len(vs)) :
             /\ verts' = vs
             /\ faces' = fs
             /\ mc_out' = [returned |-> TRUE, verts |-> vs, faces |-> fs]
    /\ values' = [op |-> "marching_cubes"]
    /\ pc' = "translate"
    /\ UNCHANGED <<resolution, bounds, iso_value, x, y, z, err, result>>
    /\ UNCHANGED mainVars

\* Lines 85-87.
Translate ==
    /\ pc = "translate"
    /\ verts' = AdjustVertices(verts, bounds[1])
    /\ pc' = "return"
    /\ UNCHANGED <<resolution, bounds, iso_value, x, y, z, values, mc_args,
                   mc_out, faces, err, result>>
    /\ UNCHANGED mainVars

\* Line 89.
Return ==
    /\ pc = "return"
    /\ result' = <<verts, faces>>
    /\ pc' = "returned"
    /\ UNCHANGED <<resolution, bounds, iso_value, x, y, z, values, mc_args,
                   mc_out, verts, faces, err>>
    /\ UNCHANGED mainVars

Init ==
    /\ pc = "idle"
    /\ resolution = 0
    /\ bounds = <<0, 0>>
    /\ iso_value = 0
    /\ x = <<>>
    /\ y = <<>>
    /\ z = <<>>
    /\ values = Unbound
    /\ mc_args = NoArgs
    /\ mc_out = [returned |-> FALSE]
    /\ verts = <<>>
    /\ faces = <<>>
    /\ err = ""
    /\ result = <<>>
    /\ mpc = "prompt"
    /\ typed = <<>>
    /\ mres = 0
    /\ call_args = <<>>
    /\ exit_code = <<>>

Next ==
    \/ \E res \in Resolutions, lo \in BoundValues, hi \in BoundValues,
          iso \in IsoValues : Call(res, lo, hi, iso)
    \/ CreateGrid
    \/ Evaluate
    \/ Smooth
    \/ ExtractIndexError
    \/ ExtractRaises
    \/ ExtractReturns
    \/ Translate
    \/ Return

Spec == Init /\ [][Next]_vars

---------------------------------------------------------------------------
(* The interactive main(): lines 155-209 *)

Digits == {"0", "1", "3", "9"}

DigitValue(c) ==
    CASE c = "0" -> 0
      [] c = "1" -> 1
      [] c = "3" -> 3
      [] c = "9" -> 9

\* Every line of at most MaxLen characters of the alphabet.
Inputs == UNION {[1..n -> Alphabet] : n \in 0..MaxLen}

RECURSIVE lstrip(_)
lstrip(s) == IF s # <<>> /\ Head(s) = " " THEN lstrip(Tail(s)) ELSE s

RECURSIVE rstrip(_)
rstrip(s) ==
    IF s # <<>> /\ s[Len(s)] = " " THEN rstrip(SubSeq(s, 1, Len(s) - 1)) ELSE s

\* str.strip(): leading and trailing whitespace removed.
strip(s) == rstrip(lstrip(s))

\* The digits of a literal once its sign is taken off.
Unsigned(s) == IF s # <<>> /\ s[1] \in {"+", "-"} THEN Tail(s) ELSE s

\* int(s) succeeds: an optional sign and at least one decimal digit.
IsIntLiteral(s) ==
    /\ Unsigned(s) # <<>>
    /\ \A i \in 1..Len(Unsigned(s)) : Unsigned(s)[i] \in Digits

RECURSIVE DecimalValue(_)
DecimalValue(ds) ==
    IF ds = <<>> THEN 0
    ELSE 10 * DecimalValue(SubSeq(ds, 1, Len(ds) - 1)) + DigitValue(ds[Len(ds)])

\* int(s) for a string int accepts.
int(s) ==
    IF s[1] = "-" THEN -DecimalValue(Unsigned(s)) ELSE DecimalValue(Unsigned(s))

Max(a, b) == IF a >= b THEN a ELSE b
Min(a, b) == IF a <= b THEN a ELSE b

\* The literals of lines 167-171.
MinResolution == 30
MaxResolution == 100
DefaultResolution == 50

\* Line 169 with the upper limit alone.
ClampAboveOnly(n) == Min(MaxResolution, n)

\* Line 169: max(30, min(100, resolution)).
Clamp(n) == Max(MinResolution, Min(MaxResolution, n))

\* Lines 166-172: the try block and its `except ValueError`.
ResolutionFromInput(line) ==
    LET stripped == strip(line)
    IN  IF stripped = <<>> THEN Clamp(DefaultResolution)
        ELSE IF IsIntLiteral(stripped) THEN Clamp(int(stripped))
        ELSE DefaultResolution

\* Lines 166-172, the user typing `line`.
PromptResolution(line) ==
    /\ mpc = "prompt"
    /\ typed' = line
    /\ mres' = ResolutionFromInput(line)
    /\ mpc' = "generate"
    /\ UNCHANGED <<call_args, exit_code>>
    /\ UNCHANGED gsVars

\* Line 167 with the input stream closed: input() raises EOFError, which the
\* `except ValueError` does not catch; main ends without an exit code.
PromptEOF ==
    /\ mpc = "prompt"
    /\ mpc' = "crashed"
    /\ UNCHANGED <<typed, mres, call_args, exit_code>>
    /\ UNCHANGED gsVars

\* Lines 179-181: the call of generate_surface.
MainGenerate ==
    /\ mpc = "generate"
    /\ call_args' = <<[resolution |-> mres, bounds |-> <<"-pi", "pi">>,
                       iso_value |-> 0]>>
    /\ mpc' = "generating"
    /\ UNCHANGED <<typed, mres, exit_code>>
    /\ UNCHANGED gsVars

\* The call returns a mesh (lines 183-185 print its sizes).
MainGenerated ==
    /\ mpc = "generating"
    /\ mpc' = "plot"
    /\ UNCHANGED <<typed, mres, call_args, exit_code>>
    /\ UNCHANGED gsVars

\* Lines 203-206: the call raised.
MainGenerateFailed ==
    /\ mpc = "generating"
    /\ exit_code' = <<1>>
    /\ mpc' = "done"
    /\ UNCHANGED <<typed, mres, call_args>>
    /\ UNCHANGED gsVars

\* Lines 187-209: plot_surface and plt.show() return.
MainShown ==
    /\ mpc = "plot"
    /\ exit_code' = <<0>>
    /\ mpc' = "done"
    /\ UNCHANGED <<typed, mres, call_args>>
    /\ UNCHANGED gsVars

\* Lines 203-206: plot_surface or plt.show() raised.
MainPlotFailed ==
    /\ mpc = "plot"
    /\ exit_code' = <<1>>
    /\ mpc' = "done"
    /\ UNCHANGED <<typed, mres, call_args>>
    /\ UNCHANGED gsVars

NextMain ==
    \/ \E line \in Inputs : PromptResolution(line)
    \/ PromptEOF
    \/ MainGenerate
    \/ MainGenerated
    \/ MainGenerateFailed
    \/ MainShown
    \/ MainPlotFailed

SpecMain == Init /\ [][NextMain]_vars

---------------------------------------------------------------------------
(* Properties *)

ValidConfiguration == resolution >= 2 /\ bounds[1] < bounds[2]

\* h = (hi - lo) / (resolution - 1)
AxisStep == RDiv(bounds[2] - bounds[1], resolution - 1)

\* lo + i * h
LatticeCoordinate(i) == RAdd(RInt(bounds[1]), RMulInt(i, AxisStep))

\* C2: an invalid configuration (resolution < 2, or lo >= hi) is rejected
\* before any sampling: no volume and no mesh is ever produced for it, and
\* the call ends by raising InvalidResolution, respectively InvalidBounds.
C2_InvalidConfigurationRejected ==
    (pc # "idle" /\ ~ValidConfiguration) =>
        /\ values = Unbound
        /\ ~mc_out.returned
        /\ result = <<>>
        /\ pc \in {"returned", "raised"} =>
              /\ pc = "raised"
              /\ err = IF resolution < 2 THEN "InvalidResolution"
                       ELSE "InvalidBounds"

\* C7: for a valid (resolution, bounds) the sampled volume has exactly
\* resolution^3 entries indexed (i, j, k) in [0, resolution)^3, the sample at
\* (i, j, k) is the field at (lo + i*h, lo + j*h, lo + k*h) with
\* h = (hi - lo) / (resolution - 1), index 0 lies at lo and index
\* resolution - 1 at hi, and the spacing passed to the extractor is h on
\* each axis.
C7_SampledVolume ==
    /\ (ValidConfiguration /\ values.op = "fischer_koch_s") =>
          /\ DOMAIN values.data = Indices(resolution, resolution, resolution)
          /\ Cardinality(DOMAIN values.data)
                = resolution * resolution * resolution
          /\ \A idx \in DOMAIN values.data :
                values.data[idx] = FieldAt(LatticeCoordinate(idx[1]),
                                           LatticeCoordinate(idx[2]),
                                           LatticeCoordinate(idx[3]))
          /\ \A axis \in {x, y, z} :
                /\ Len(axis) = resolution
                /\ axis[1] = RInt(bounds[1])
                /\ axis[resolution] = RInt(bounds[2])
    /\ (ValidConfiguration /\ mc_args.called) =>
          mc_args.spacing = <<AxisStep, AxisStep, AxisStep>>

\* C7's case: a 3 x 3 x 3 volume sampled over (-1, 2), where h = 3/2.
C7_Witness ==
    /\ values.op = "fischer_koch_s"
    /\ resolution = 3
    /\ bounds = <<-1, 2>>
    /\ x[2] = <<1, 2>>

\* C8: the returned vertices are the extractor's vertices, in the same
\* number and order, each with bounds[0] added once to each of its three
\* components, and the returned faces are the extractor's faces.
C8_TranslationOnly ==
    pc = "returned" =>
        /\ Len(result[1]) = Len(mc_out.verts)
        /\ \A n \in 1..Len(mc_out.verts) :
              \A c \in 1..3 :
                 result[1][n][c] = mc_out.verts[n][c] + bounds[1]
        /\ result[2] = mc_out.faces

\* C8's case: two different vertices and one face returned, with a shift
\* that is not zero.
C8_Witness ==
    /\ pc = "returned"
    /\ bounds[1] = -1
    /\ Len(mc_out.verts) = 2
    /\ mc_out.verts[1] # mc_out.verts[2]
    /\ Len(result[2]) = 1

\* C10: in the interactive main the resolution is always an integer in
\* [30, 100]: an integer n typed gives max(30, min(100, n)), a blank line
\* gives 50 and anything else gives 50; generate_surface is never called
\* from main with a resolution below 2.
C10_ResolutionClamped ==
    /\ mpc \in {"generate", "generating", "plot", "done"} =>
          /\ mres \in 30..100
          /\ LET t == strip(typed)
             IN  /\ t = <<>> => mres = 50
                 /\ (t # <<>> /\ IsIntLiteral(t)) =>
                       mres = (IF int(t) < 30 THEN 30
                               ELSE IF int(t) > 100 THEN 100 ELSE int(t))
                 /\ (t # <<>> /\ ~IsIntLiteral(t)) => mres = 50
    /\ call_args # <<>> =>
          /\ call_args[1].resolution = mres
          /\ call_args[1].resolution \in 30..100
          /\ call_args[1].resolution >= 2

\* C10's case: generate_surface called after the user typed "-9", which the
\* lower limit raises to 30.
C10_Witness ==
    /\ call_args # <<>>
    /\ typed = <<" ", "-", "9">>
    /\ call_args[1].resolution = 30

====
